---- MODULE Spec2Model ----
(***************************************************************************)
(* Model of the NFT minting lane (src/app.py): an aiohttp service over one *)
(* in-memory table nft_store and one id counter next_token_id.  Every      *)
(* handler runs to completion on the single-threaded event loop once its   *)
(* request body has been read, so each handler is one action.  A handler   *)
(* is written as a function (XxxResult) from the state and the request to  *)
(* the new state and the response; the action applies it.                  *)
(***************************************************************************)
EXTENDS Integers, Sequences, FiniteSets, TLC

VARIABLES
    nft_store,      \* app.py:23  token id (string) -> record
    next_token_id,  \* app.py:24  the id counter
    last,           \* summary of the request handled last and of its response
    minted,         \* history: every <<id, record>> ever written to nft_store
    generated,      \* history: the ids produced by auto-generation, in order
    handlers,       \* the handler coroutines of the requests in flight, by slot
    running         \* the slot of the handler the event loop is running, 0 if none

vars == <<nft_store, next_token_id, last, minted, generated, handlers, running>>

\* the coroutines, untouched by the actions that run a handler in one step
conc == <<handlers, running>>

----------------------------------------------------------------------------
(* Bounds of the model *)

\* auto-generation is explored while the counter is at most MaxTokenId
MaxTokenId == 2

\* the number of requests whose handlers are followed statement by statement
MaxInFlight == 2

----------------------------------------------------------------------------
(* JSON / Python values: a tag, a number and a text *)

Absent   == [t |-> "absent", n |-> 0, s |-> ""]   \* key not in the mapping / header not sent
Null     == [t |-> "null", n |-> 0, s |-> ""]     \* JSON null, Python None
JInt(i)  == [t |-> "int", n |-> i, s |-> ""]
JStr(x)  == [t |-> "str", n |-> 0, s |-> x]
JBool(b) == [t |-> "bool", n |-> IF b THEN 1 ELSE 0, s |-> ""]
\* a JSON object with k entries whose text is x (opaque to the service)
JObj(k, x) == [t |-> "dict", n |-> k, s |-> x]

\* mutant: `if token_id is None` in place of `if not token_id`
Truthy_NotNone(v) == v.t \notin {"absent", "null"}

\* Python truth value, as used by `not token_id` and `user or ...`
Truthy(v) ==
    CASE v.t = "absent" -> FALSE
      [] v.t = "null"   -> FALSE
      [] v.t = "int"    -> v.n # 0
      [] v.t = "bool"   -> v.n = 1
      [] v.t = "str"    -> v.s # ""
      [] v.t = "dict"   -> v.n # 0

Digit(d) ==
    CASE d = 0 -> "0" [] d = 1 -> "1" [] d = 2 -> "2" [] d = 3 -> "3"
      [] d = 4 -> "4" [] d = 5 -> "5" [] d = 6 -> "6" [] d = 7 -> "7"
      [] d = 8 -> "8" [] d = 9 -> "9"

RECURSIVE IntToStr(_)
\* str() of a Python int: decimal digits, most significant first
IntToStr(i) ==
    IF i < 0 THEN "-" \o IntToStr(0 - i)
    ELSE IF i < 10 THEN Digit(i)
    ELSE IntToStr(i \div 10) \o Digit(i % 10)

\* Python str(v) of a string, an int, a bool or None
PyStr(v) ==
    CASE v.t = "str"    -> v.s
      [] v.t = "int"    -> IntToStr(v.n)
      [] v.t = "bool"   -> IF v.n = 1 THEN "True" ELSE "False"
      [] v.t = "null"   -> "None"

\* `key in mapping`
Has(d, k) == d[k] # Absent

\* mutant: mapping.get(key), the default dropped
DictGet_NoDefault(d, k, default) == IF Has(d, k) THEN d[k] ELSE Null

\* mapping.get(key, default); an absent header or key reads as None
DictGet(d, k, default) == IF Has(d, k) THEN d[k] ELSE default

\* Python `a or b`
PyOr(a, b) == IF Truthy(a) THEN a ELSE b

----------------------------------------------------------------------------
(* Requests *)

EmptyDict == [token_id |-> Absent, metadata |-> Absent, owner |-> Absent]

TokenIdValues  == {Absent, JStr(""), JInt(1), JStr("2")}
MetadataValues == {Absent, JObj(1, "{\"x\": 1}")}
OwnerValues    == {Absent, JStr("alice")}
UserValues     == {Absent, JStr(""), JStr("bob")}      \* the X-User header
\* datetime.now(timezone.utc).isoformat() as read by the handlers that run
TimeStamps     == {"2024-01-01T00:00:00+00:00"}
\* the {token_id} path parameter; "" is what the `if not token_id` guard is for
PathIds        == {"", "1", "2", "nope"}
PayloadLens    == {1, 40}                            \* len(data) of a /submit payload

\* the JSON mappings a body can parse to
Dicts == [token_id : TokenIdValues, metadata : MetadataValues, owner : OwnerValues]

\* A request body by what decoding and parsing make of it:
\*   "nonutf8"  bytes that are not UTF-8
\*   "nonjson"  text that is not JSON
\*   "nondict"  JSON that is not a mapping (array, number, string, null)
\*   "dict"     a JSON mapping, parsed to `dict`
Body(kind, d, len) == [kind |-> kind, dict |-> d, len |-> len]

RawKinds == {"nonutf8", "nonjson", "nondict"}

Bodies ==
    {Body(k, EmptyDict, l) : k \in RawKinds, l \in PayloadLens}
        \cup {Body("dict", d, 40) : d \in Dicts}

----------------------------------------------------------------------------
(* Records and responses *)

Record(owner, metadata, now) == [owner |-> owner, metadata |-> metadata, minted_at |-> now]

NoNft == Record(Absent, Absent, "")

\* mutant: the table rebound to a new mapping, nft_store = {token_id: rec}
Put_Rebind(store, token_id, rec) == [k \in {token_id} |-> rec]

\* nft_store[token_id] = rec
Put(store, token_id, rec) ==
    [k \in DOMAIN store \cup {token_id} |-> IF k = token_id THEN rec ELSE store[k]]

\* web.json_response(...): the fields the handlers put in their responses
Response(http, status, message) ==
    [http |-> http, status |-> status, message |-> message,
     token_id |-> "", nft |-> NoNft, count |-> 0 - 1, nfts |-> {},
     bytes_received |-> 0 - 1, timestamp |-> ""]

\* what a handler leaves behind: the table, the counter, the response, and
\* whether it took the auto-generation path and wrote a record
Result(store, counter, resp, auto, outcome) ==
    [store |-> store, counter |-> counter, resp |-> resp, auto |-> auto, outcome |-> outcome]

\* the text of the exception request.json() / data.get raises on a body
ExcMessage(body) ==
    CASE body.kind = "nonutf8" -> "'utf-8' codec can't decode byte"
      [] body.kind = "nonjson" -> "Expecting value"
      [] body.kind = "nondict" -> "object has no attribute 'get'"
      [] OTHER                 -> ""

\* the summary kept in `last`
Summary(op, kind, r) ==
    [op |-> op, kind |-> kind, http |-> r.resp.http, auto |-> r.auto, outcome |-> r.outcome]

----------------------------------------------------------------------------
(* Initial state: module load, app.py:23-24 *)

Slots == 1 .. MaxInFlight

\* a slot no request has taken
Idle ==
    [op |-> "none", body |-> Body("none", EmptyDict, 0), user |-> Absent, pc |-> "idle",
     token_id |-> "", auto |-> FALSE, outcome |-> "none", http |-> 0, overlapped |-> FALSE]

Init ==
    /\ nft_store = <<>>
    /\ next_token_id = 1
    /\ last = [op |-> "none", kind |-> "none", http |-> 0, auto |-> FALSE, outcome |-> "none"]
    /\ minted = {}
    /\ generated = <<>>
    /\ handlers = [s \in Slots |-> Idle]
    /\ running = 0

\* the history kept beside a handler's result r that chose token_id
Record_history(r, token_id) ==
    /\ minted' = IF r.outcome = "created"
                 THEN minted \cup {<<token_id, r.store[token_id]>>} ELSE minted
    /\ generated' = IF r.auto THEN Append(generated, token_id) ELSE generated

----------------------------------------------------------------------------
(* Id selection, app.py:58-64 and app.py:169-175 *)

\* the branch `if not token_id`
AutoGenerate(token_id) == ~Truthy(token_id)

\* mutant: the counter incremented before it is converted to the id
ChooseTokenId_PostIncrement(token_id, counter) ==
    IF AutoGenerate(token_id) THEN IntToStr(counter + 1) ELSE PyStr(token_id)

ChooseTokenId(token_id, counter) ==
    IF AutoGenerate(token_id) THEN IntToStr(counter) ELSE PyStr(token_id)

\* mutant: the increment forgotten
NextCounter_Stuck(token_id, counter) == counter

\* mutant: the increment moved out of the `if not token_id` branch
NextCounter_Always(token_id, counter) == counter + 1

\* mutant: the counter advanced by two
NextCounter_Skip(token_id, counter) ==
    IF AutoGenerate(token_id) THEN counter + 2 ELSE counter

NextCounter(token_id, counter) ==
    IF AutoGenerate(token_id) THEN counter + 1 ELSE counter

----------------------------------------------------------------------------
(* GET /health *)

\* mutant: nfts_minted taken from the counter instead of len(nft_store)
HealthResult_ByCounter(store, counter, now) ==
    Result(store, counter,
           [Response(200, "OK", "") EXCEPT !.timestamp = now, !.count = counter - 1],
           FALSE, "none")

HealthResult(store, counter, now) ==
    Result(store, counter,
           [Response(200, "OK", "") EXCEPT !.timestamp = now,
                                           !.count = Cardinality(DOMAIN store)],
           FALSE, "none")

health(now) ==
    LET r == HealthResult(nft_store, next_token_id, now) IN
    /\ nft_store' = r.store
    /\ next_token_id' = r.counter
    /\ last' = Summary("health", "none", r)
    /\ UNCHANGED <<minted, generated, conc>>

----------------------------------------------------------------------------
(* POST /mint *)

\* mutant: the record written before the existence check
MintStore_Overwrite(store, token_id, rec) == Put(store, token_id, rec)

\* the store after mint_nft: unchanged on a duplicate id, else one new record
MintStore(store, token_id, rec) ==
    IF token_id \in DOMAIN store THEN store ELSE Put(store, token_id, rec)

\* the id mint_nft works with for a parsed body
MintTokenId(data, counter) == ChooseTokenId(DictGet(data, "token_id", Null), counter)

\* mutant: a body that does not parse to a mapping taken as the empty mapping
ParsesToMapping_Lenient(body) == TRUE

\* `await request.json()` returns and the value has `.get`: the body is a JSON mapping
ParsesToMapping(body) == body.kind = "dict"

\* mutant: the increment undone when the generated id turns out to exist
ConflictCounter_RolledBack(counter, counter2) == counter

\* the counter after the 400 return: the increment made at line 62 stays
ConflictCounter(counter, counter2) == counter2

MintResult(store, counter, body, now) ==
    IF ~ParsesToMapping(body)
    THEN \* request.json() or data.get raises: the except branch
         Result(store, counter, Response(500, "error", ExcMessage(body)), FALSE, "none")
    ELSE LET data      == body.dict
             metadata  == DictGet(data, "metadata", JObj(0, "{}"))
             owner     == DictGet(data, "owner", JStr("unknown"))
             auto      == AutoGenerate(DictGet(data, "token_id", Null))
             token_id  == MintTokenId(data, counter)
             counter2  == NextCounter(DictGet(data, "token_id", Null), counter)
             store2    == MintStore(store, token_id, Record(owner, metadata, now))
         IN  IF token_id \in DOMAIN store
             THEN Result(store2, ConflictCounter(counter, counter2),
                         [Response(400, "error", "Token ID " \o token_id \o " already exists")
                            EXCEPT !.token_id = token_id],
                         auto, "duplicate")
             ELSE Result(store2, counter2,
                         [Response(200, "ok", "NFT minted successfully")
                            EXCEPT !.token_id = token_id, !.nft = store2[token_id]],
                         auto, "created")

mint_nft(body, now) ==
    LET r == MintResult(nft_store, next_token_id, body, now) IN
    /\ r.auto => next_token_id <= MaxTokenId
    /\ nft_store' = r.store
    /\ next_token_id' = r.counter
    /\ last' = Summary("mint", body.kind, r)
    /\ Record_history(r, MintTokenId(body.dict, next_token_id))
    /\ UNCHANGED conc

----------------------------------------------------------------------------
(* GET /nft/{token_id} *)

\* mutant: nft_store.get(token_id) with the `not in nft_store` check dropped
GetResult_NoCheck(store, counter, token_id) ==
    Result(store, counter,
           IF token_id = ""
           THEN Response(400, "error", "Token ID required")
           ELSE [Response(200, "ok", "")
                   EXCEPT !.token_id = token_id,
                          !.nft = IF token_id \in DOMAIN store THEN store[token_id] ELSE NoNft],
           FALSE, "none")

\* mutant: the lookup done with nft_store.setdefault(token_id, {...}), which
\* stores an entry for a missing id
GetResult_SetDefault(store, counter, token_id) ==
    Result(IF token_id = "" \/ token_id \in DOMAIN store
           THEN store ELSE Put(store, token_id, NoNft),
           counter,
           IF token_id = ""
           THEN Response(400, "error", "Token ID required")
           ELSE IF token_id \notin DOMAIN store
           THEN Response(404, "error", "NFT " \o token_id \o " not found")
           ELSE [Response(200, "ok", "")
                   EXCEPT !.token_id = token_id, !.nft = store[token_id]],
           FALSE, "none")

GetResult(store, counter, token_id) ==
    Result(store, counter,
           IF token_id = ""
           THEN Response(400, "error", "Token ID required")
           ELSE IF token_id \notin DOMAIN store
           THEN Response(404, "error", "NFT " \o token_id \o " not found")
           ELSE [Response(200, "ok", "")
                   EXCEPT !.token_id = token_id, !.nft = store[token_id]],
           FALSE, "none")

get_nft(token_id) ==
    LET r == GetResult(nft_store, next_token_id, token_id) IN
    /\ nft_store' = r.store
    /\ next_token_id' = r.counter
    /\ last' = Summary("get", "none", r)
    /\ UNCHANGED <<minted, generated, conc>>

----------------------------------------------------------------------------
(* GET /nfts *)

\* {"token_id": token_id, **nft_data}
Flatten(token_id, nft_data) ==
    [token_id |-> token_id, owner |-> nft_data.owner,
     metadata |-> nft_data.metadata, minted_at |-> nft_data.minted_at]

ListResult(store, counter) ==
    LET nfts == {Flatten(token_id, store[token_id]) : token_id \in DOMAIN store} IN
    Result(store, counter,
           [Response(200, "ok", "") EXCEPT !.count = Cardinality(nfts), !.nfts = nfts],
           FALSE, "none")

list_nfts ==
    LET r == ListResult(nft_store, next_token_id) IN
    /\ nft_store' = r.store
    /\ next_token_id' = r.counter
    /\ last' = Summary("list", "none", r)
    /\ UNCHANGED <<minted, generated, conc>>

----------------------------------------------------------------------------
(* POST /submit *)

\* mutant: every payload handled as a mint request
IsMintRequest_Any(body) == TRUE

\* mutant: every JSON mapping handled as a mint request
IsMintRequest_AnyMapping(body) == body.kind = "dict"

\* the test that makes a submission a mint request, app.py:161-163
IsMintRequest(body) ==
    /\ body.kind = "dict"
    /\ (Has(body.dict, "token_id") \/ Has(body.dict, "metadata"))

\* mutant: the `if token_id not in nft_store` guard dropped
SubmitStore_Overwrite(store, token_id, rec) == Put(store, token_id, rec)

\* the store after the `if token_id not in nft_store` of submit_handler
SubmitStore(store, token_id, rec) ==
    IF token_id \notin DOMAIN store THEN Put(store, token_id, rec) ELSE store

\* mutant: the body's owner taken before the X-User hint
SubmitOwner_BodyFirst(user, json_data) ==
    IF Has(json_data, "owner") THEN json_data.owner ELSE PyOr(user, JStr("unknown"))

\* owner = user or json_data.get("owner", "unknown")
SubmitOwner(user, json_data) ==
    PyOr(user, DictGet(json_data, "owner", JStr("unknown")))

\* the id submit_handler works with for a parsed body
SubmitTokenId(json_data, counter) ==
    ChooseTokenId(DictGet(json_data, "token_id", Null), counter)

SubmitResult(store, counter, body, user, now) ==
    LET resp == [Response(200, "ok", "Submission processed successfully")
                   EXCEPT !.bytes_received = body.len]
    IN
    IF ~IsMintRequest(body)
    THEN \* raw data, or JSON that is no mint request: acknowledged only
         Result(store, counter, resp, FALSE, "none")
    ELSE LET json_data == body.dict
             metadata  == DictGet(json_data, "metadata", JObj(0, "{}"))
             owner     == SubmitOwner(user, json_data)
             auto      == AutoGenerate(DictGet(json_data, "token_id", Null))
             token_id  == SubmitTokenId(json_data, counter)
             counter2  == NextCounter(DictGet(json_data, "token_id", Null), counter)
             store2    == SubmitStore(store, token_id, Record(owner, metadata, now))
         IN  Result(store2, counter2, resp, auto,
                    IF token_id \notin DOMAIN store THEN "created" ELSE "duplicate")

submit_handler(body, user, now) ==
    LET r == SubmitResult(nft_store, next_token_id, body, user, now) IN
    /\ r.auto => next_token_id <= MaxTokenId
    /\ nft_store' = r.store
    /\ next_token_id' = r.counter
    /\ last' = Summary("submit", body.kind, r)
    /\ Record_history(r, SubmitTokenId(body.dict, next_token_id))
    /\ UNCHANGED conc

----------------------------------------------------------------------------
(* OPTIONS /{path} *)

OptionsResult(store, counter) ==
    Result(store, counter, Response(200, "", ""), FALSE, "none")

options_handler ==
    LET r == OptionsResult(nft_store, next_token_id) IN
    /\ nft_store' = r.store
    /\ next_token_id' = r.counter
    /\ last' = Summary("options", "none", r)
    /\ UNCHANGED <<minted, generated, conc>>

----------------------------------------------------------------------------

Next ==
    \/ \E now \in TimeStamps : health(now)
    \/ \E body \in Bodies, now \in TimeStamps : mint_nft(body, now)
    \/ \E token_id \in PathIds : get_nft(token_id)
    \/ list_nfts
    \/ \E body \in Bodies, user \in UserValues, now \in TimeStamps :
           submit_handler(body, user, now)
    \/ options_handler

Spec == Init /\ [][Next]_vars

----------------------------------------------------------------------------
(* Requests in flight at once.  A handler is a coroutine: it is started,   *)
(* suspends at its only await (app.py:53 `await request.json()`, app.py:142 *)
(* `await request.read()`), and once resumed runs statement by statement.   *)
(* The event loop runs another handler only at the points where the        *)
(* running one yields.                                                     *)

\* the requests followed statement by statement
ConcRequests ==
    { [op |-> "mint", user |-> Absent,
       body |-> Body("dict", [EmptyDict EXCEPT !.owner = JStr("alice")], 40)],
      [op |-> "mint", user |-> Absent,
       body |-> Body("dict", [EmptyDict EXCEPT !.token_id = JInt(1),
                                               !.owner = JStr("alice")], 40)],
      [op |-> "mint", user |-> Absent, body |-> Body("nonjson", EmptyDict, 1)],
      [op |-> "submit", user |-> JStr("bob"),
       body |-> Body("dict", [EmptyDict EXCEPT !.token_id = JStr("")], 40)],
      [op |-> "submit", user |-> JStr("bob"),
       body |-> Body("dict", [EmptyDict EXCEPT !.token_id = JStr("1")], 40)] }

\* mutant: preemptive threads, the running handler can lose control after any statement
Yields_Preemptive(pc) == TRUE

\* the program points at which a handler gives the event loop back:
\* its await and its return
Yields(pc) == pc \in {"await", "done"}

\* the handler in slot s may execute its next statement
MayRun(s) == running \in {0, s}

\* the handler in slot s has executed a statement and stands at pc
Proceed(s, h) ==
    /\ handlers' = [handlers EXCEPT ![s] = h]
    /\ running' = IF Yields(h.pc) THEN 0 ELSE s

\* the handler returns its response
Return(h, http, outcome) == [h EXCEPT !.pc = "done", !.http = http, !.outcome = outcome]

\* the response a returning handler leaves in `last`
Returned(h) ==
    [op |-> h.op, kind |-> h.body.kind, http |-> h.http, auto |-> h.auto,
     outcome |-> h.outcome]

\* a request arrives: its handler starts and suspends awaiting the body
Arrive(s, req) ==
    /\ running = 0
    /\ handlers[s].pc = "idle"
    /\ Proceed(s, [Idle EXCEPT !.op = req.op, !.body = req.body, !.user = req.user,
                               !.pc = "await"])
    /\ UNCHANGED <<nft_store, next_token_id, last, minted, generated>>

\* app.py:53-56 / app.py:142-167: the body is there, the handler resumes and
\* parses it; mint_nft raises on a body that is no mapping, submit_handler
\* acknowledges one that is no mint request
ReadBody(s) ==
    LET h == handlers[s]
        h2 == [h EXCEPT !.overlapped = \E o \in Slots \ {s} : handlers[o].pc = "await"]
        h3 == IF h.op = "mint" /\ h.body.kind # "dict" THEN Return(h2, 500, "none")
              ELSE IF h.op = "submit" /\ ~IsMintRequest(h.body) THEN Return(h2, 200, "none")
              ELSE [h2 EXCEPT !.pc = "select"]
    IN  /\ h.pc = "await"
        /\ running = 0
        /\ Proceed(s, h3)
        /\ last' = IF h3.pc = "done" THEN Returned(h3) ELSE last
        /\ UNCHANGED <<nft_store, next_token_id, minted, generated>>

\* app.py:59-61, 64 / app.py:170-172, 175: token_id is assigned
SelectId(s) ==
    LET h        == handlers[s]
        given    == DictGet(h.body.dict, "token_id", Null)
        token_id == ChooseTokenId(given, next_token_id)
    IN  /\ h.pc = "select"
        /\ MayRun(s)
        /\ Proceed(s, [h EXCEPT !.token_id = token_id, !.auto = AutoGenerate(given),
                                !.pc = IF AutoGenerate(given) THEN "incr" ELSE "check"])
        /\ generated' = IF AutoGenerate(given) THEN Append(generated, token_id) ELSE generated
        /\ UNCHANGED <<nft_store, next_token_id, last, minted>>

\* app.py:62 / app.py:173: next_token_id += 1
Increment(s) ==
    LET h == handlers[s] IN
    /\ h.pc = "incr"
    /\ MayRun(s)
    /\ next_token_id' = NextCounter(DictGet(h.body.dict, "token_id", Null), next_token_id)
    /\ Proceed(s, [h EXCEPT !.pc = "check"])
    /\ UNCHANGED <<nft_store, last, minted, generated>>

\* app.py:67-72 / app.py:178, 187-188: the existence check; on an existing id
\* mint_nft returns 400 and submit_handler skips
CheckExists(s) ==
    LET h  == handlers[s]
        h2 == IF h.token_id \in DOMAIN nft_store
              THEN Return(h, IF h.op = "mint" THEN 400 ELSE 200, "duplicate")
              ELSE [h EXCEPT !.pc = "insert"]
    IN  /\ h.pc = "check"
        /\ MayRun(s)
        /\ Proceed(s, h2)
        /\ last' = IF h2.pc = "done" THEN Returned(h2) ELSE last
        /\ UNCHANGED <<nft_store, next_token_id, minted, generated>>

\* app.py:75-91 / app.py:179-203: the record is written and the handler returns
Insert(s, now) ==
    LET h     == handlers[s]
        owner == IF h.op = "mint" THEN DictGet(h.body.dict, "owner", JStr("unknown"))
                 ELSE SubmitOwner(h.user, h.body.dict)
        rec   == Record(owner, DictGet(h.body.dict, "metadata", JObj(0, "{}")), now)
        h2    == Return(h, 200, "created")
    IN  /\ h.pc = "insert"
        /\ MayRun(s)
        /\ nft_store' = Put(nft_store, h.token_id, rec)
        /\ minted' = minted \cup {<<h.token_id, rec>>}
        /\ Proceed(s, h2)
        /\ last' = Returned(h2)
        /\ UNCHANGED <<next_token_id, generated>>

ConcNext ==
    \/ \E s \in Slots, req \in ConcRequests : Arrive(s, req)
    \/ \E s \in Slots : ReadBody(s)
    \/ \E s \in Slots : SelectId(s)
    \/ \E s \in Slots : Increment(s)
    \/ \E s \in Slots : CheckExists(s)
    \/ \E s \in Slots, now \in TimeStamps : Insert(s, now)

ConcSpec == Init /\ [][ConcNext]_vars

----------------------------------------------------------------------------
(* Verification: shorthands *)

\* the handlers are examined at the clock readings of the run and at a later one,
\* so that a write over a stored record shows in its timestamp
CheckTimes == TimeStamps \cup {"2024-01-02T00:00:00+00:00"}

DictBodies == {b \in Bodies : b.kind = "dict"}

\* the bodies that carry an explicit (truthy) token_id
ExplicitBodies == {b \in DictBodies : Truthy(b.dict.token_id)}

\* the bodies that make mint_nft / submit_handler generate the id
AutoBodies == {b \in DictBodies : ~Truthy(b.dict.token_id)}

MintLikeBodies == {b \in DictBodies : b.dict.token_id # Absent \/ b.dict.metadata # Absent}

Mint(body, now) == MintResult(nft_store, next_token_id, body, now)

Submit(body, user, now) == SubmitResult(nft_store, next_token_id, body, user, now)

MintedIds == {e[1] : e \in minted}

GeneratedIds == {generated[i] : i \in DOMAIN generated}

----------------------------------------------------------------------------
(* C1: a record written to the table under some id stays in the table     *)
(* under that id with the owner, metadata and creation timestamp it was   *)
(* written with, whatever operations follow.                              *)

C1_RecordsImmutable ==
    \A e \in minted : e[1] \in DOMAIN nft_store /\ nft_store[e[1]] = e[2]

\* a duplicate submission was skipped while two records were in the table
C1_Witness ==
    /\ Cardinality(minted) = 2
    /\ last.op = "submit" /\ last.outcome = "duplicate"

(* C2: a Mint with an explicit token_id whose string form is already a    *)
(* key answers 400 / "error" with a message naming the id and leaves the  *)
(* table as it was.                                                       *)

C2_ExplicitDuplicateConflict ==
    \A body \in ExplicitBodies, now \in CheckTimes :
        LET id == PyStr(body.dict.token_id)
            r  == Mint(body, now)
        IN  id \in DOMAIN nft_store =>
                /\ r.resp.http = 400
                /\ r.resp.status = "error"
                /\ r.resp.message = "Token ID " \o id \o " already exists"
                /\ r.store = nft_store

C2_Witness ==
    last.op = "mint" /\ last.http = 400 /\ ~last.auto /\ last.outcome = "duplicate"

(* C3 as stated: a Mint without token_id never returns the Conflict error *)
(* because its id never collides with an id already in the table.         *)

C3_AutoMintNeverConflicts ==
    \A body \in AutoBodies, now \in CheckTimes : Mint(body, now).resp.http # 400

(* C3 amended: the calls on the auto-generation path get "1", "2", "3",   *)
(* ... consecutively in call order, so a generated id never equals an     *)
(* earlier generated id; a Mint without token_id returns Conflict exactly *)
(* when its id is in the table, and that id then came from an explicit    *)
(* token_id.                                                              *)

C3_AutoIdsConsecutive ==
    /\ Len(generated) = next_token_id - 1
    /\ \A i \in DOMAIN generated : generated[i] = IntToStr(i)
    /\ \A i, j \in DOMAIN generated : i # j => generated[i] # generated[j]
    /\ \A body \in AutoBodies, now \in CheckTimes :
           LET r == Mint(body, now) IN
           /\ r.resp.token_id = IntToStr(next_token_id)
           /\ r.resp.token_id \notin GeneratedIds
           /\ r.resp.http = 400 <=> r.resp.token_id \in DOMAIN nft_store
           /\ r.resp.http = 200 <=> r.resp.token_id \notin DOMAIN nft_store

\* the second generated id was minted
C3_Witness ==
    /\ last.op = "mint" /\ last.auto /\ last.http = 200
    /\ Len(generated) = 2

(* C4 as stated: a Mint that fails on an existing id, explicit or         *)
(* generated, changes neither the table nor the counter.                  *)

C4_ConflictNoMutation ==
    \A body \in DictBodies, now \in CheckTimes :
        LET r == Mint(body, now) IN
        r.resp.http = 400 => r.store = nft_store /\ r.counter = next_token_id

(* C4 amended: a Mint that fails on an existing id leaves the table       *)
(* unchanged; the counter is unchanged when the id was explicit and is    *)
(* one more than before when the id was generated.                        *)

C4_ConflictFrame ==
    \A body \in DictBodies, now \in CheckTimes :
        LET r == Mint(body, now) IN
        r.resp.http = 400 =>
            /\ r.store = nft_store
            /\ Truthy(body.dict.token_id) => r.counter = next_token_id
            /\ ~Truthy(body.dict.token_id) => r.counter = next_token_id + 1

C4_Witness ==
    last.op = "mint" /\ last.http = 400 /\ last.auto

(* C5: a mint-like Submit whose id is already in the table answers 200 /  *)
(* "ok" with the payload length and leaves the table unchanged; the same  *)
(* explicit-id body submitted twice leaves the record of the first.       *)

C5_DuplicateSubmitSkipped ==
    /\ \A body \in MintLikeBodies, user \in UserValues, now \in CheckTimes :
           LET r == Submit(body, user, now) IN
           SubmitTokenId(body.dict, next_token_id) \in DOMAIN nft_store =>
               /\ r.resp.http = 200
               /\ r.resp.status = "ok"
               /\ r.resp.bytes_received = body.len
               /\ r.store = nft_store
    /\ \A body \in ExplicitBodies, user \in UserValues, now, later \in CheckTimes :
           LET first  == Submit(body, user, now)
               second == SubmitResult(first.store, first.counter, body, user, later)
           IN  /\ second.resp.http = 200
               /\ second.store = first.store
               /\ PyStr(body.dict.token_id) \in DOMAIN second.store

C5_Witness ==
    last.op = "submit" /\ last.http = 200 /\ ~last.auto /\ last.outcome = "duplicate"

(* C6 as stated: the record a Submit creates is owned by the X-User hint  *)
(* if the hint is present, else by the body's owner field if present,     *)
(* else by "unknown".                                                     *)

C6_OwnerHintIfPresent ==
    \A body \in MintLikeBodies, user \in UserValues, now \in CheckTimes :
        LET r  == Submit(body, user, now)
            id == SubmitTokenId(body.dict, next_token_id)
        IN  r.outcome = "created" =>
                r.store[id].owner =
                    IF user # Absent THEN user
                    ELSE IF body.dict.owner # Absent THEN body.dict.owner
                    ELSE JStr("unknown")

(* C6 amended: the owner is the X-User hint if the hint is present and    *)
(* not empty, else the body's owner field if present, else "unknown"; the *)
(* record is stored under the id Mint would choose for the same body.     *)

C6_SubmitOwnerPrecedence ==
    /\ \A body \in MintLikeBodies, user \in UserValues, now \in CheckTimes :
           LET r  == Submit(body, user, now)
               id == Mint(body, now).resp.token_id
           IN  r.outcome = "created" =>
                   /\ id \in DOMAIN r.store
                   /\ id \notin DOMAIN nft_store
                   /\ r.store[id].owner =
                        IF user \notin {Absent, JStr("")} THEN user
                        ELSE IF body.dict.owner # Absent THEN body.dict.owner
                        ELSE JStr("unknown")
    /\ LET body == Body("dict", [token_id |-> JStr("7"), metadata |-> JObj(1, "{\"x\": 1}"),
                                 owner |-> JStr("carol")], 40)
           r    == Submit(body, JStr("alice"), "2024-01-01T00:00:00+00:00")
       IN  /\ "7" \in DOMAIN r.store
           /\ r.store["7"].owner = JStr("alice")

C6_Witness ==
    /\ last.op = "submit" /\ last.outcome = "created"
    /\ \E id \in DOMAIN nft_store : nft_store[id].owner = JStr("bob")
    /\ \E id \in DOMAIN nft_store : nft_store[id].owner = JStr("alice")

(* C7: a Submit whose payload is not UTF-8 or not JSON answers 200 with   *)
(* the payload length, creates no record and changes neither the table   *)
(* nor the counter.                                                       *)

C7_RawSubmitAcknowledged ==
    \A body \in Bodies, user \in UserValues, now \in CheckTimes :
        LET r == Submit(body, user, now) IN
        body.kind \in {"nonutf8", "nonjson"} =>
            /\ r.resp.http = 200
            /\ r.resp.bytes_received = body.len
            /\ r.store = nft_store
            /\ r.counter = next_token_id
            /\ r.outcome = "none"

C7_Witness ==
    /\ last.op = "submit" /\ last.kind = "nonutf8" /\ last.http = 200
    /\ nft_store # <<>>

(* C8: the counts of List and of Health equal the number of keys of the   *)
(* table, which is the number of distinct ids a Mint or Submit created.   *)

C8_CountsMatchTable ==
    /\ Cardinality(DOMAIN nft_store) = Cardinality(MintedIds)
    /\ ListResult(nft_store, next_token_id).resp.count = Cardinality(DOMAIN nft_store)
    /\ \A now \in CheckTimes :
           HealthResult(nft_store, next_token_id, now).resp.count
               = Cardinality(DOMAIN nft_store)

C8_Witness ==
    /\ last.op = "list"
    /\ Cardinality(DOMAIN nft_store) = 2

(* C9: Get of a non-empty id answers 404 exactly when the id is no key of *)
(* the table; otherwise it returns the id and the record as it was        *)
(* written at creation.                                                   *)

C9_GetReturnsStored ==
    \A token_id \in PathIds \ {""} :
        LET r == GetResult(nft_store, next_token_id, token_id) IN
        /\ r.resp.http = 404 <=> token_id \notin DOMAIN nft_store
        /\ token_id \in DOMAIN nft_store =>
               /\ r.resp.http = 200
               /\ r.resp.token_id = token_id
               /\ r.resp.nft = nft_store[token_id]
               /\ <<token_id, r.resp.nft>> \in minted

C9_Witness ==
    /\ last.op = "get" /\ last.http = 200
    /\ Cardinality(DOMAIN nft_store) = 2

(* C10: a Mint whose id is not in the table adds exactly one record under *)
(* that id, with the request's owner ("unknown" when absent) and metadata *)
(* ({} when absent), changes no other entry, and returns the id and the   *)
(* stored record.                                                         *)

C10_MintInsertsOne ==
    \A body \in DictBodies, now \in CheckTimes :
        LET r  == Mint(body, now)
            id == IF Truthy(body.dict.token_id)
                  THEN PyStr(body.dict.token_id) ELSE IntToStr(next_token_id)
        IN  id \notin DOMAIN nft_store =>
                /\ r.resp.http = 200
                /\ r.resp.status = "ok"
                /\ DOMAIN r.store = DOMAIN nft_store \cup {id}
                /\ \A k \in DOMAIN nft_store : r.store[k] = nft_store[k]
                /\ r.store[id].owner =
                     IF body.dict.owner = Absent THEN JStr("unknown") ELSE body.dict.owner
                /\ r.store[id].metadata =
                     IF body.dict.metadata = Absent THEN JObj(0, "{}") ELSE body.dict.metadata
                /\ r.store[id].minted_at = now
                /\ r.resp.token_id = id
                /\ r.resp.nft = r.store[id]

C10_Witness ==
    /\ last.op = "mint" /\ last.http = 200 /\ ~last.auto
    /\ Cardinality(DOMAIN nft_store) = 2

(* C11: with several Mint and Submit requests in flight, a handler being *)
(* suspended only while it awaits its body, the id choice, the existence   *)
(* check and the insert of a request run as one atomic step: no two        *)
(* requests obtain the same generated id, at most one request creates the  *)
(* record of an id, and no request overwrites a record another created.    *)

\* the handlers between their await and their return
Resumed == {s \in Slots : handlers[s].pc \in {"select", "incr", "check", "insert"}}

\* the handlers that hold a generated id
HoldGenerated == {s \in Slots : handlers[s].auto /\ handlers[s].pc \notin {"idle", "await", "select"}}

Creators == {s \in Slots : handlers[s].outcome = "created"}

C11_AtomicReadCheckWrite ==
    /\ Cardinality(Resumed) <= 1
    /\ \A s \in Slots, o \in Slots :
           s # o /\ s \in HoldGenerated /\ o \in HoldGenerated
               => handlers[s].token_id # handlers[o].token_id
    /\ \A s \in Slots, o \in Slots :
           s # o /\ s \in Creators /\ o \in Creators
               => handlers[s].token_id # handlers[o].token_id
    /\ \A e \in minted : e[1] \in DOMAIN nft_store /\ nft_store[e[1]] = e[2]
    /\ \A i, j \in DOMAIN generated : i # j => generated[i] # generated[j]

\* two requests for the same id were in flight together: one created the
\* record, the other found it
C11_Witness ==
    \E s \in Slots, o \in Slots :
        /\ s # o
        /\ handlers[s].pc = "done" /\ handlers[s].outcome = "created"
        /\ handlers[o].pc = "done" /\ handlers[o].outcome = "duplicate"
        /\ handlers[s].overlapped
        /\ handlers[s].token_id = handlers[o].token_id

(* C12: a Mint whose body is not JSON, or is JSON but no mapping, answers *)
(* 500 / "error"; the table and the counter are unchanged and the requests *)
(* that follow are handled as if it had not been made.                     *)

C12_MalformedMintIsInternalError ==
    \A body \in Bodies, now \in CheckTimes :
        LET r == Mint(body, now) IN
        body.kind \in {"nonutf8", "nonjson", "nondict"} =>
            /\ r.resp.http = 500
            /\ r.resp.status = "error"
            /\ r.store = nft_store
            /\ r.counter = next_token_id
            /\ r.outcome = "none"
            /\ \A next \in DictBodies :
                   MintResult(r.store, r.counter, next, now) = Mint(next, now)

\* a malformed Mint was answered while the table held a record
C12_Witness ==
    /\ last.op = "mint" /\ last.http = 500 /\ last.kind = "nonjson"
    /\ Cardinality(DOMAIN nft_store) = 1

(* C13: in Mint and in a mint-like Submit, an absent or falsy token_id    *)
(* (null, 0, false, "") gives the id the string form of the counter; a     *)
(* truthy token_id gives str(token_id) as it is, so the explicit "3" or 3  *)
(* takes the key the counter generates later.                              *)

FalsyTokenIds == {Absent, Null, JInt(0), JBool(FALSE), JStr("")}

\* the explicit token_id values examined, each with the id expected for it
ExplicitIdTable ==
    { <<JInt(1), "1">>, <<JStr("1"), "1">>, <<JInt(2), "2">>, <<JStr("2"), "2">>,
      <<JInt(3), "3">>, <<JStr("3"), "3">>, <<JInt(12), "12">>, <<JInt(0 - 5), "-5">>,
      <<JStr("x"), "x">>, <<JStr("0"), "0">>, <<JBool(TRUE), "True">> }

\* the decimal text of the counter values the model reaches
CounterText == <<"1", "2", "3", "4", "5", "6", "7", "8", "9">>

\* a body with the given token_id and some metadata, so that Submit takes it for a mint
BodyWithTokenId(tok) ==
    Body("dict", [EmptyDict EXCEPT !.token_id = tok, !.metadata = JObj(1, "{\"x\": 1}")], 40)

\* Mint and Submit work with the id `id` for the token_id value tok
UsesId(tok, id, now) ==
    LET m == Mint(BodyWithTokenId(tok), now)
        u == Submit(BodyWithTokenId(tok), Absent, now)
    IN  /\ m.resp.token_id = id
        /\ m.resp.http = (IF id \in DOMAIN nft_store THEN 400 ELSE 200)
        /\ DOMAIN m.store = DOMAIN nft_store \cup {id}
        /\ DOMAIN u.store = DOMAIN nft_store \cup {id}
        /\ u.outcome = (IF id \in DOMAIN nft_store THEN "duplicate" ELSE "created")

C13_IdSelection ==
    \A now \in CheckTimes :
        /\ \A tok \in FalsyTokenIds : UsesId(tok, CounterText[next_token_id], now)
        /\ \A e \in ExplicitIdTable : UsesId(e[1], e[2], now)
        /\ \A tok \in {JInt(next_token_id), JStr(CounterText[next_token_id])} :
               LET first == Mint(BodyWithTokenId(tok), now)
                   auto  == MintResult(first.store, first.counter, BodyWithTokenId(Absent), now)
               IN  /\ first.resp.token_id = Mint(BodyWithTokenId(Absent), now).resp.token_id
                   /\ auto.resp.http = 400
                   /\ auto.resp.token_id = first.resp.token_id

\* a Submit that generated its id found the id taken by an explicit one
C13_Witness ==
    /\ last.op = "submit" /\ last.auto /\ last.outcome = "duplicate"
    /\ generated = <<"1">>
    /\ DOMAIN nft_store = {"1"}

(* C14: a Mint or mint-like Submit adds exactly one to the counter if and *)
(* only if it generates its id (token_id absent or falsy), whether or not  *)
(* it then creates a record; with an explicit token_id the counter stays,  *)
(* whether the call succeeds, conflicts or is skipped.                     *)

C14_CounterFollowsAutoPath ==
    \A now \in CheckTimes :
        /\ \A tok \in FalsyTokenIds :
               /\ Mint(BodyWithTokenId(tok), now).counter = next_token_id + 1
               /\ Submit(BodyWithTokenId(tok), Absent, now).counter = next_token_id + 1
        /\ \A e \in ExplicitIdTable :
               /\ Mint(BodyWithTokenId(e[1]), now).counter = next_token_id
               /\ Submit(BodyWithTokenId(e[1]), Absent, now).counter = next_token_id
        /\ \A body \in DictBodies :
               Mint(body, now).counter - next_token_id
                   = (IF body.dict.token_id \in FalsyTokenIds THEN 1 ELSE 0)
        /\ \A body \in MintLikeBodies, user \in UserValues :
               Submit(body, user, now).counter - next_token_id
                   = (IF body.dict.token_id \in FalsyTokenIds THEN 1 ELSE 0)

\* the counter was advanced twice, the second time by a call that created nothing
C14_Witness ==
    /\ last.auto /\ last.outcome = "duplicate"
    /\ next_token_id = 3

(* C15: a Submit is a mint request only when its payload parses to a     *)
(* mapping with a token_id key or a metadata key; JSON that is no mapping, *)
(* or a mapping with neither key, creates no record, leaves the table and  *)
(* the counter unchanged and is acknowledged with 200 and the byte count.  *)

\* the mappings with neither key, and one whose token_id key holds null
NoMintDicts == {d \in Dicts : d.token_id = Absent /\ d.metadata = Absent}

NullTokenBody == Body("dict", [EmptyDict EXCEPT !.token_id = Null], 40)

C15_OnlyMintLikeSubmitsMint ==
    \A user \in UserValues, now \in CheckTimes :
        /\ \A body \in Bodies :
               LET r == Submit(body, user, now) IN
               /\ r.resp.http = 200
               /\ r.resp.bytes_received = body.len
               /\ (body.kind = "nondict" \/ (body.kind = "dict" /\ body.dict \in NoMintDicts))
                      => /\ r.store = nft_store
                         /\ r.counter = next_token_id
                         /\ r.outcome = "none"
               /\ r.outcome # "none"
                      => /\ body.kind = "dict"
                         /\ body.dict.token_id # Absent \/ body.dict.metadata # Absent
               /\ (body.kind = "dict" /\ body.dict \notin NoMintDicts) => r.outcome # "none"
        /\ Submit(NullTokenBody, user, now).outcome # "none"
        /\ Submit(NullTokenBody, user, now).counter = next_token_id + 1

\* a mapping with only an owner field was acknowledged
C15_Witness ==
    /\ last.op = "submit" /\ last.kind = "dict" /\ last.outcome = "none" /\ last.http = 200
    /\ nft_store # <<>>

(* C16: Health, Get by id, List and the CORS preflight are read-only:    *)
(* whatever they answer (200, 400 or 404), the table and the counter are   *)
(* as they were.                                                           *)

\* the handler result r leaves the table and the counter alone
ReadOnly(r) == r.store = nft_store /\ r.counter = next_token_id /\ r.outcome = "none"

C16_ReadOnlyHandlers ==
    /\ \A now \in CheckTimes : ReadOnly(HealthResult(nft_store, next_token_id, now))
    /\ \A token_id \in PathIds \cup {"3", "True"} :
           LET r == GetResult(nft_store, next_token_id, token_id) IN
           /\ ReadOnly(r)
           /\ r.resp.http \in {200, 400, 404}
           /\ r.resp.http = 400 <=> token_id = ""
    /\ ReadOnly(ListResult(nft_store, next_token_id))
    /\ ReadOnly(OptionsResult(nft_store, next_token_id))

\* a lookup missed while the table held a record and the counter had moved
C16_Witness ==
    /\ last.op = "get" /\ last.http = 404
    /\ Cardinality(DOMAIN nft_store) = 1
    /\ next_token_id = 2

(* C17: in every reachable state the counter is at least 1, equals 1 plus *)
(* the number of Mint and Submit calls that took the auto-generation path, *)
(* and exceeds the numeric value of every auto-generated id; no step       *)
(* decreases it.                                                           *)

\* the id is the decimal text of a number in 1 .. counter - 1
BelowCounter(id, counter) == \E n \in 1 .. (counter - 1) : IntToStr(n) = id

C17_CounterState ==
    /\ next_token_id >= 1
    /\ next_token_id = 1 + Len(generated)
    /\ \A i \in 1 .. Len(generated) : BelowCounter(generated[i], next_token_id)

C17_CounterInvariants ==
    /\ []C17_CounterState
    /\ [][next_token_id' >= next_token_id]_vars

\* two calls took the auto path, the second of them a Submit that created "2"
C17_Witness ==
    /\ generated = <<"1", "2">>
    /\ last.op = "submit" /\ last.auto /\ last.outcome = "created"

(* C18: from any reachable state with n records, a client repeating Mint  *)
(* without a token_id, with no other request in between, gets a success    *)
(* within n + 1 calls: every failed call moves the counter past the id it  *)
(* collided with and leaves the table alone.                               *)

RECURSIVE SucceedsWithin(_, _, _, _, _)
\* one of the next k Mint calls with this body answers 200, the ones before
\* it answering 400 without touching the table
SucceedsWithin(store, counter, body, now, k) ==
    /\ k > 0
    /\ LET r == MintResult(store, counter, body, now) IN
       \/ r.resp.http = 200 /\ r.outcome = "created"
       \/ /\ r.resp.http = 400
          /\ r.store = store
          /\ r.counter > counter
          /\ SucceedsWithin(r.store, r.counter, body, now, k - 1)

C18_RetrySucceedsWithinNPlusOne ==
    \A body \in AutoBodies, now \in CheckTimes :
        SucceedsWithin(nft_store, next_token_id, body, now,
                       Cardinality(DOMAIN nft_store) + 1)

\* an auto-generating Mint has just failed on "1", the table holds "1" and
\* "2", and the next call fails too: all n + 1 = 3 calls are needed
C18_Witness ==
    /\ last.op = "mint" /\ last.auto /\ last.http = 400
    /\ DOMAIN nft_store = {"1", "2"}
    /\ next_token_id = 2
    /\ \A body \in AutoBodies, now \in CheckTimes :
           /\ ~SucceedsWithin(nft_store, next_token_id, body, now, 1)
           /\ SucceedsWithin(nft_store, next_token_id, body, now, 2)

====
